---- MODULE Spec2Model ----
(***************************************************************************)
(* melonDS DS libretro core: the OpenGL presenter (src/libretro/opengl.cpp)*)
(* and the libretro entry points (src/libretro/libretro.cpp).              *)
(*                                                                         *)
(* The model has three layers:                                             *)
(*   - the geometry compositor InitializeFrameState, a pure function of    *)
(*     the ScreenLayoutData, computed with exact rationals;                *)
(*   - the presenter and the context callbacks (Render, ContextReset,      *)
(*     context_destroy, SetupOpenGl) over the file-static state of         *)
(*     opengl.cpp and the set of GL objects the component has generated    *)
(*     and not deleted;                                                    *)
(*   - the host entry points of libretro.cpp.                              *)
(* Every handler leaves the list of external calls it made in `trace`.     *)
(***************************************************************************)
EXTENDS Integers, Sequences, FiniteSets, TLC

(***************************************************************************)
(* Bounds of the model.                                                    *)
(***************************************************************************)
\* resolution scales 1..MaxScale: screens of 256*s x 192*s
MaxScale == 2
\* scaled screen gaps 0..MaxGap
MaxGap == 1
\* the emulated frame counter wraps at MaxFrames + 1
MaxFrames == 1

(***************************************************************************)
(* Program constants.                                                      *)
(***************************************************************************)
NDS_SCREEN_WIDTH == 256
NDS_SCREEN_HEIGHT == 192
\* screen_vertices[72]: 18 vertices of 4 floats
NumVertexSlots == 18

ScreenLayouts ==
    {"TopBottom", "BottomTop", "LeftRight", "RightLeft",
     "TopOnly", "BottomOnly", "HybridTop", "HybridBottom"}

SmallScreenLayouts == {"SmallScreenTop", "SmallScreenBottom", "SmallScreenDuplicate"}

Renderers == {"Software", "OpenGl"}

(***************************************************************************)
(* Exact arithmetic for the float expressions: a value is <<n, d>>, d > 0. *)
(***************************************************************************)
Rat(n, d) == <<n, d>>

RatAdd(a, b) == <<a[1] * b[2] + b[1] * a[2], a[2] * b[2]>>

RatSub(a, b) == <<a[1] * b[2] - b[1] * a[2], a[2] * b[2]>>

RatEq(a, b) == a[1] * b[2] = b[1] * a[2]

RatLe(a, b) == a[1] * b[2] <= b[1] * a[2]

(***************************************************************************)
(* ScreenLayoutData as Render and InitializeFrameState read it.            *)
(***************************************************************************)
ScreenLayoutData(layout, small, scale, gap, ratio, bw, bh) ==
    [layout |-> layout,
     hybridSmallScreenLayout |-> small,
     screenWidth |-> NDS_SCREEN_WIDTH * scale,
     screenHeight |-> NDS_SCREEN_HEIGHT * scale,
     scaledScreenGap |-> gap,
     hybridRatio |-> ratio,
     scaleFactor |-> scale,
     bufferWidth |-> bw,
     bufferHeight |-> bh]

HybridRatios == {2, 3}

\* every layout, small-screen layout, scale, gap and hybrid ratio
AllScreenLayoutData ==
    {ScreenLayoutData(l, s, k, g, r, NDS_SCREEN_WIDTH * k * 4, NDS_SCREEN_HEIGHT * k * 2) :
        l \in ScreenLayouts, s \in SmallScreenLayouts, k \in 1..MaxScale,
        g \in 0..MaxGap, r \in HybridRatios}

\* the layouts the lifecycle specification switches between
LifecycleScreenLayoutData ==
    {ScreenLayoutData("TopBottom", "SmallScreenTop", 1, 0, 2, NDS_SCREEN_WIDTH, NDS_SCREEN_HEIGHT * 2),
     ScreenLayoutData("HybridTop", "SmallScreenDuplicate", 1, 0, 2, NDS_SCREEN_WIDTH * 3, NDS_SCREEN_HEIGHT * 2)}

IsHybridLayout(L) == L.layout \in {"HybridTop", "HybridBottom"}

(***************************************************************************)
(* InitializeFrameState: the vertex buffer.                                *)
(***************************************************************************)
Vertex(x, y, t_x, t_y) == [x |-> x, y |-> y, t_x |-> t_x, t_y |-> t_y]

\* static float screen_vertices[72], zero-initialised
ZeroVertices == [i \in 0..(NumVertexSlots - 1) |-> Vertex(0, 0, 0, Rat(0, 1))]

SETVERTEX(sv, i, x, y, t_x, t_y) == [sv EXCEPT ![i] = Vertex(x, y, t_x, t_y)]

\* mutant of pixel_pad: the padding follows the screen height passed in
pixel_pad_of_height(screen_height) == Rat(1, 2 * screen_height + 2)

\* const float pixel_pad = 1.0f / (192 * 2 + 2)
pixel_pad(screen_height) == Rat(1, 192 * 2 + 2)

\* mutant of HalfMinusPad: the padding is added on the top screen's side
HalfMinusPadWrongSign(L) == RatAdd(Rat(1, 2), pixel_pad(L.screenHeight))

\* 0.5f - pixel_pad and 0.5f + pixel_pad
HalfMinusPad(L) == RatSub(Rat(1, 2), pixel_pad(L.screenHeight))

HalfPlusPad(L) == RatAdd(Rat(1, 2), pixel_pad(L.screenHeight))

\* mutant of LayoutSwitch: the offsets of TopBottom whatever the layout
LayoutSwitchAlwaysTopBottom(L) ==
    [top_screen_x |-> 0, top_screen_y |-> 0,
     bottom_screen_x |-> 0, bottom_screen_y |-> L.screenHeight + L.scaledScreenGap,
     primary_x |-> L.screenWidth * L.hybridRatio,
     primary_y |-> L.screenHeight * L.hybridRatio,
     primary_tex |-> [i \in 0..5 |-> <<0, Rat(0, 1)>>]]

\* the locals the switch on screenLayout.Layout() leaves
LayoutSwitch(L) ==
    LET w == L.screenWidth
        h == L.screenHeight
        g == L.scaledScreenGap
        lo == HalfMinusPad(L)
        hi == HalfPlusPad(L)
        base == [top_screen_x |-> 0, top_screen_y |-> 0,
                 bottom_screen_x |-> 0, bottom_screen_y |-> 0,
                 primary_x |-> 0, primary_y |-> 0,
                 primary_tex |-> [i \in 0..5 |-> <<0, Rat(0, 1)>>]]
    IN  CASE L.layout = "TopBottom" -> [base EXCEPT !.bottom_screen_y = h + g]
          [] L.layout = "BottomTop" -> [base EXCEPT !.top_screen_y = h + g]
          [] L.layout = "LeftRight" -> [base EXCEPT !.bottom_screen_x = w]
          [] L.layout = "RightLeft" -> [base EXCEPT !.top_screen_x = w]
          [] L.layout = "TopOnly" -> [base EXCEPT !.bottom_screen_y = h]
          [] L.layout = "BottomOnly" -> [base EXCEPT !.top_screen_y = h]
          [] L.layout = "HybridTop" ->
                [base EXCEPT !.primary_x = w * L.hybridRatio,
                             !.primary_y = h * L.hybridRatio,
                             !.primary_tex =
                                 [i \in 0..5 |->
                                     CASE i = 0 -> <<0, Rat(0, 1)>>
                                       [] i = 1 -> <<0, lo>>
                                       [] i = 2 -> <<1, lo>>
                                       [] i = 3 -> <<0, Rat(0, 1)>>
                                       [] i = 4 -> <<1, Rat(0, 1)>>
                                       [] i = 5 -> <<1, lo>>]]
          [] L.layout = "HybridBottom" ->
                [base EXCEPT !.primary_x = w * L.hybridRatio,
                             !.primary_y = h * L.hybridRatio,
                             !.primary_tex =
                                 [i \in 0..5 |->
                                     CASE i = 0 -> <<0, hi>>
                                       [] i = 1 -> <<0, Rat(1, 1)>>
                                       [] i = 2 -> <<1, Rat(1, 1)>>
                                       [] i = 3 -> <<0, hi>>
                                       [] i = 4 -> <<1, hi>>
                                       [] i = 5 -> <<1, Rat(1, 1)>>]]

\* mutant of SetQuad: the bottom-left and the top-right corner change places
SetQuadCornersSwapped(sv, base, q) ==
    LET s0 == SETVERTEX(sv, base + 0, q[1][1], q[1][2], q[1][3], q[1][4])
        s1 == SETVERTEX(s0, base + 1, q[5][1], q[5][2], q[5][3], q[5][4])
        s2 == SETVERTEX(s1, base + 2, q[3][1], q[3][2], q[3][3], q[3][4])
        s3 == SETVERTEX(s2, base + 3, q[4][1], q[4][2], q[4][3], q[4][4])
        s4 == SETVERTEX(s3, base + 4, q[2][1], q[2][2], q[2][3], q[2][4])
    IN  SETVERTEX(s4, base + 5, q[6][1], q[6][2], q[6][3], q[6][4])

\* six SETVERTEX calls in a row: slot base+k gets q[k+1]
SetQuad(sv, base, q) ==
    LET s0 == SETVERTEX(sv, base + 0, q[1][1], q[1][2], q[1][3], q[1][4])
        s1 == SETVERTEX(s0, base + 1, q[2][1], q[2][2], q[2][3], q[2][4])
        s2 == SETVERTEX(s1, base + 2, q[3][1], q[3][2], q[3][3], q[3][4])
        s3 == SETVERTEX(s2, base + 3, q[4][1], q[4][2], q[4][3], q[4][4])
        s4 == SETVERTEX(s3, base + 4, q[5][1], q[5][2], q[5][3], q[5][4])
    IN  SETVERTEX(s4, base + 5, q[6][1], q[6][2], q[6][3], q[6][4])

\* mutant of BottomScreenOnTop: the layout is not tested
BottomScreenOnTopAnyLayout(layout, small) == small = "SmallScreenTop"

\* the first test of the "Top screen" chain: the small screen on top shows the
\* bottom screen
BottomScreenOnTop(layout, small) == small = "SmallScreenTop" /\ layout = "HybridTop"

\* the hybrid branch: primary quad, then the "Top screen" and "Bottom Screen" chains
HybridVertices(sv, L) ==
    LET S == LayoutSwitch(L)
        px == S.primary_x
        py == S.primary_y
        pt == S.primary_tex
        w == L.screenWidth
        h == L.screenHeight
        lo == HalfMinusPad(L)
        hi == HalfPlusPad(L)
        zero == Rat(0, 1)
        one == Rat(1, 1)
        layout == L.layout
        small == L.hybridSmallScreenLayout
        primary == SetQuad(sv, 0,
            << <<0, 0, pt[0][1], pt[0][2]>>,
               <<0, py, pt[1][1], pt[1][2]>>,
               <<px, py, pt[2][1], pt[2][2]>>,
               <<0, 0, pt[3][1], pt[3][2]>>,
               <<px, 0, pt[4][1], pt[4][2]>>,
               <<px, py, pt[5][1], pt[5][2]>> >>)
        topAlignedBottomScreen ==
            << <<px, 0, 0, hi>>,
               <<px, 0 + h, 0, one>>,
               <<px + w, 0 + h, 1, one>>,
               <<px, 0, 0, hi>>,
               <<px + w, 0, 1, hi>>,
               <<px + w, 0 + h, 1, one>> >>
        topAlignedTopScreen ==
            << <<px, 0, 0, zero>>,
               <<px, 0 + h, 0, lo>>,
               <<px + w, 0 + h, 1, lo>>,
               <<px, 0, 0, zero>>,
               <<px + w, 0, 1, zero>>,
               <<px + w, 0 + h, 1, lo>> >>
        bottomAlignedBottomScreen ==
            << <<px, py - h, 0, hi>>,
               <<px, py, 0, one>>,
               <<px + w, py, 1, one>>,
               <<px, py - h, 0, hi>>,
               <<px + w, py - h, 1, hi>>,
               <<px + w, py, 1, one>> >>
        bottomAlignedTopScreen ==
            << <<px, py - h, 0, zero>>,
               <<px, py, 0, lo>>,
               <<px + w, py, 1, lo>>,
               <<px, py - h, 0, zero>>,
               <<px + w, py - h, 1, zero>>,
               <<px + w, py, 1, lo>> >>
        afterTop ==
            IF BottomScreenOnTop(layout, small)
            THEN SetQuad(primary, 6, topAlignedBottomScreen)
            ELSE IF small = "SmallScreenDuplicate"
                    \/ (layout = "HybridBottom" /\ small = "SmallScreenTop")
            THEN SetQuad(primary, 6, topAlignedTopScreen)
            ELSE primary
    IN  IF small = "SmallScreenBottom" /\ layout = "HybridTop"
        THEN SetQuad(afterTop, 6, bottomAlignedBottomScreen)
        ELSE IF small = "SmallScreenBottom" /\ layout = "HybridBottom"
        THEN SetQuad(afterTop, 6, bottomAlignedTopScreen)
        ELSE IF small = "SmallScreenDuplicate"
        THEN SetQuad(afterTop, 12, bottomAlignedBottomScreen)
        ELSE afterTop

\* the non-hybrid branch: top screen in slots 0..5, bottom screen in 6..11
NonHybridVertices(sv, L) ==
    LET S == LayoutSwitch(L)
        tx == S.top_screen_x
        ty == S.top_screen_y
        bx == S.bottom_screen_x
        by == S.bottom_screen_y
        w == L.screenWidth
        h == L.screenHeight
        top_screen_scale == 1
        bottom_screen_scale == 1
        lo == HalfMinusPad(L)
        hi == HalfPlusPad(L)
        zero == Rat(0, 1)
        one == Rat(1, 1)
        top == SetQuad(sv, 0,
            << <<tx, ty, 0, zero>>,
               <<tx, ty + h * top_screen_scale, 0, lo>>,
               <<tx + w * top_screen_scale, ty + h * top_screen_scale, 1, lo>>,
               <<tx, ty, 0, zero>>,
               <<tx + w * top_screen_scale, ty, 1, zero>>,
               <<tx + w * top_screen_scale, ty + h * top_screen_scale, 1, lo>> >>)
    IN  SetQuad(top, 6,
            << <<bx, by, 0, hi>>,
               <<bx, by + h * bottom_screen_scale, 0, one>>,
               <<bx + w * bottom_screen_scale, by + h * bottom_screen_scale, 1, one>>,
               <<bx, by, 0, hi>>,
               <<bx + w * bottom_screen_scale, by, 1, hi>>,
               <<bx + w * bottom_screen_scale, by + h * bottom_screen_scale, 1, one>> >>)

\* screen_vertices after InitializeFrameState(screenLayout), from screen_vertices sv
InitializeFrameStateVertices(sv, L) ==
    IF IsHybridLayout(L) THEN HybridVertices(sv, L) ELSE NonHybridVertices(sv, L)

\* a value no SETVERTEX writes, to tell the written slots from the others
UnwrittenVertices == [i \in 0..(NumVertexSlots - 1) |-> Vertex(-1, -1, -1, Rat(-1, 1))]

\* the slots InitializeFrameState writes for L
WrittenSlots(L) ==
    {i \in 0..(NumVertexSlots - 1) :
        InitializeFrameStateVertices(UnwrittenVertices, L)[i] # UnwrittenVertices[i]}

\* the vertex count Render passes to glDrawArrays
DrawVertexCount(L) ==
    IF L.hybridSmallScreenLayout = "SmallScreenDuplicate" THEN 18 ELSE 12

(***************************************************************************)
(* State.                                                                  *)
(***************************************************************************)
VARIABLES
    \* file-static state of opengl.cpp
    refresh_opengl, context_initialized, shader, screen_framebuffer_texture,
    screen_vertices, vao, vbo, ubo, GL_ShaderConfig,
    \* GL objects of the current context that SetupOpenGl generated and that
    \* were not deleted since: <<kind, name>>
    glObjects,
    \* GPU3D::CurrentRenderer ("null" when none is assigned)
    gpu3dRenderer,
    \* melonds::render::CurrentRenderer(), the configured renderer
    currentRenderer,
    \* the ScreenLayoutData the caller passes to Render
    screenLayout,
    \* MelonDsDs::Core: IsInitialized(), Console, the emulated frame counter
    coreInitialized, Console, frames,
    \* retro::task scheduler initialised
    taskInitialized,
    \* host side: the error message shown and the shutdown request
    errorMessage, shutdownRequested,
    \* the exception that left an entry point into the host ("none": every
    \* entry point so far returned normally); the process does not go on after it
    uncaught,
    \* the external calls of the last handler, in order
    trace,
    \* the last handler, its outcome, its cursor input, and whether the handler
    \* before it was a context destroy
    lastOp,
    \* progress through reset, destroy, reset, first Render
    resetCycle

glVars == <<refresh_opengl, context_initialized, shader, screen_framebuffer_texture,
            screen_vertices, vao, vbo, ubo, GL_ShaderConfig, glObjects>>

rendererVars == <<gpu3dRenderer, currentRenderer>>

coreVars == <<coreInitialized, Console, frames, taskInitialized>>

hostVars == <<errorMessage, shutdownRequested, uncaught>>

vars == <<refresh_opengl, context_initialized, shader, screen_framebuffer_texture,
          screen_vertices, vao, vbo, ubo, GL_ShaderConfig, glObjects, gpu3dRenderer,
          currentRenderer, screenLayout, coreInitialized, Console, frames,
          taskInitialized, errorMessage, shutdownRequested, uncaught, trace, lastOp,
          resetCycle>>

Call(c, args) == [call |-> c, args |-> args]

Op(name, ok, cursor, afterDestroy) ==
    [name |-> name, ok |-> ok, cursor |-> cursor, afterDestroy |-> afterDestroy]

(***************************************************************************)
(* The uniform block GL_ShaderConfig.                                      *)
(***************************************************************************)
\* memset(&GL_ShaderConfig, 0, ...) and the zero-initialised static
ZeroShaderConfig ==
    [uScreenSize |-> <<0, 0>>, u3DScale |-> 0, uFilterMode |-> 0,
     cursorPos |-> <<Rat(0, 1), Rat(0, 1), Rat(0, 1), Rat(0, 1)>>]

\* cursorPos[0..3] = -1.0f
DisabledCursor == <<Rat(-1, 1), Rat(-1, 1), Rat(-1, 1), Rat(-1, 1)>>

\* the bounding box Render computes: 1.35f = 135/100, 1.5f = 15/10
CursorBox(x, y, cursorSize) ==
    <<Rat((x - cursorSize) * 100, NDS_SCREEN_HEIGHT * 135),
      RatAdd(Rat((y - cursorSize) * 10, NDS_SCREEN_WIDTH * 15), Rat(1, 2)),
      Rat((x + cursorSize) * 100, NDS_SCREEN_HEIGHT * 135),
      RatAdd(Rat((y + cursorSize) * 10, NDS_SCREEN_WIDTH * 15), Rat(1, 2))>>

\* the uniform part of InitializeFrameState
InitializeFrameStateConfig(cfg, L) ==
    [cfg EXCEPT !.uScreenSize = <<L.bufferWidth, L.bufferHeight>>,
                !.u3DScale = L.scaleFactor,
                !.cursorPos = DisabledCursor]

\* InputState: CursorEnabled(), TouchX(), TouchY()
TouchPoints == {<<0, 0>>, <<255, 191>>}

InputStates ==
    {[cursorEnabled |-> FALSE, touchX |-> 0, touchY |-> 0]}
    \cup {[cursorEnabled |-> TRUE, touchX |-> p[1], touchY |-> p[2]] : p \in TouchPoints}

\* the inputs of the lifecycle specification: cursor off, cursor on at one point
LifecycleInputStates ==
    {[cursorEnabled |-> FALSE, touchX |-> 0, touchY |-> 0],
     [cursorEnabled |-> TRUE, touchX |-> 255, touchY |-> 191]}

\* melonds::config::video::CursorSize()
CursorSizes == {2}

(***************************************************************************)
(* Render.                                                                 *)
(***************************************************************************)
\* GL_ShaderConfig after Render
RenderConfig(cfg, L, refresh, state, cursorSize) ==
    LET c1 == IF refresh THEN InitializeFrameStateConfig(cfg, L) ELSE cfg
    IN  IF state.cursorEnabled
        THEN [c1 EXCEPT !.cursorPos = CursorBox(state.touchX, state.touchY, cursorSize)]
        ELSE c1

\* mutant of DrawCalls: the draw is issued only when the frame state was rebuilt
DrawCallsOnRefreshOnly(L, refresh) ==
    IF refresh
    THEN <<Call("glBindBuffer", <<vbo>>),
           Call("glBindVertexArray", <<vao>>),
           Call("glDrawArrays", <<DrawVertexCount(L)>>),
           Call("glFlush", <<>>)>>
    ELSE <<>>

\* the draw of Render: bind the vertex buffer and array, draw, flush
DrawCalls(L, refresh) ==
    <<Call("glBindBuffer", <<vbo>>),
      Call("glBindVertexArray", <<vao>>),
      Call("glDrawArrays", <<DrawVertexCount(L)>>),
      Call("glFlush", <<>>)>>

\* the external calls of Render, in order
RenderCalls(L, refresh, state) ==
    <<Call("GLSM_CTL_STATE_BIND", <<>>),
      Call("glBindFramebuffer", <<>>)>>
    \o (IF refresh
        THEN <<Call("glClear", <<>>),
               Call("SetRenderSettings", <<>>),
               Call("uploadUniforms", <<ubo>>),
               Call("glBufferSubData", <<vbo>>)>>
        ELSE <<>>)
    \o (IF state.cursorEnabled THEN <<Call("uploadUniforms", <<ubo>>)>> ELSE <<>>)
    \o <<Call("UseShaderProgram", <<shader>>),
         Call("glViewport", <<L.bufferWidth, L.bufferHeight>>),
         Call("BindOutputTexture", <<>>)>>
    \o DrawCalls(L, refresh)
    \o <<Call("GLSM_CTL_STATE_UNBIND", <<>>),
         Call("video_refresh", <<L.bufferWidth, L.bufferHeight>>)>>

\* mutant of RefreshAfterFrameState: InitializeFrameState leaves the flag as it was
RefreshAfterFrameStateKept == refresh_opengl

\* refresh_opengl = false, the first statement of InitializeFrameState
RefreshAfterFrameState == FALSE

\* the effect of Render(state, screenLayout) on the state of opengl.cpp
Render(state, cursorSize) ==
    /\ refresh_opengl' = IF refresh_opengl THEN RefreshAfterFrameState ELSE refresh_opengl
    /\ screen_vertices' =
          IF refresh_opengl
          THEN InitializeFrameStateVertices(screen_vertices, screenLayout)
          ELSE screen_vertices
    /\ GL_ShaderConfig' =
          RenderConfig(GL_ShaderConfig, screenLayout, refresh_opengl, state, cursorSize)
    /\ trace' = RenderCalls(screenLayout, refresh_opengl, state)
    /\ UNCHANGED <<context_initialized, shader, screen_framebuffer_texture, vao, vbo,
                   ubo, glObjects>>

(***************************************************************************)
(* SetupOpenGl, ContextReset, context_destroy.                             *)
(***************************************************************************)
\* glGen*/glCreate*: an unused name of the kind (the lowest)
GenName(kind, objs) ==
    CHOOSE n \in 1..(Cardinality(objs) + 1) :
        /\ <<kind, n>> \notin objs
        /\ \A m \in 1..(n - 1) : <<kind, m>> \in objs

\* GLSM_CTL_STATE_CONTEXT_RESET: the host has created a new context; the objects
\* of the previous one are lost with it
GlsmContextReset(objs) == {}

\* mutant of RefreshAfterSetup: SetupOpenGl leaves the refresh flag as it was
RefreshAfterSetupKept == refresh_opengl

\* refresh_opengl = true at the end of a successful SetupOpenGl
RefreshAfterSetup == TRUE

\* what SetupOpenGl returns and leaves, given the live objects at entry and
\* whether the shader builds and links
SetupOpenGl(objs, buildOk, linkOk) ==
    LET prog == GenName("program", objs)
        o1 == objs \cup {<<"program", prog>>}
        u == GenName("buffer", o1)
        o2 == o1 \cup {<<"buffer", u>>}
        v == GenName("buffer", o2)
        o3 == o2 \cup {<<"buffer", v>>}
        a == GenName("vao", o3)
        o4 == o3 \cup {<<"vao", a>>}
        t == GenName("texture", o4)
        o5 == o4 \cup {<<"texture", t>>}
        unchanged == [ok |-> FALSE, shader |-> shader, ubo |-> ubo, vbo |-> vbo,
                      vao |-> vao, texture |-> screen_framebuffer_texture,
                      objects |-> objs, config |-> GL_ShaderConfig,
                      refresh |-> refresh_opengl, calls |-> <<>>]
    IN  IF ~buildOk
        THEN [unchanged EXCEPT !.calls = <<Call("BuildShaderProgram", <<0>>)>>]
        ELSE IF ~linkOk
        THEN [unchanged EXCEPT
                 !.shader = prog,
                 !.calls = <<Call("BuildShaderProgram", <<prog>>),
                             Call("LinkShaderProgram", <<0>>)>>]
        ELSE [ok |-> TRUE, shader |-> prog, ubo |-> u, vbo |-> v, vao |-> a,
              texture |-> t, objects |-> o5, config |-> ZeroShaderConfig,
              refresh |-> RefreshAfterSetup,
              calls |-> <<Call("BuildShaderProgram", <<prog>>),
                          Call("LinkShaderProgram", <<prog>>),
                          Call("glGenBuffers", <<u>>),
                          Call("glGenBuffers", <<v>>),
                          Call("glGenVertexArrays", <<a>>),
                          Call("glGenTextures", <<t>>)>>]

\* <<BuildShaderProgram succeeds, LinkShaderProgram succeeds>>; no link without a build
ShaderOutcomes == {<<FALSE, FALSE>>, <<TRUE, FALSE>>, <<TRUE, TRUE>>}

UsingOpenGl == currentRenderer = "OpenGl"

\* mutant of RendererInPlace: the presence of a renderer is not checked
RendererInPlaceUnchecked == UsingOpenGl

\* UsingOpenGl() && GPU3D::CurrentRenderer: the guard of GPU::DeInitRenderer
RendererInPlace == UsingOpenGl /\ gpu3dRenderer # "null"

\* mutant of ContextResetUnbind: a failed setup returns with the state bound
ContextResetUnbindOnSuccess(ok) ==
    IF ok THEN <<Call("GLSM_CTL_STATE_UNBIND", <<>>)>> ELSE <<>>

\* glsm_ctl(GLSM_CTL_STATE_UNBIND) after SetupOpenGl, whatever it returned
ContextResetUnbind(ok) == <<Call("GLSM_CTL_STATE_UNBIND", <<>>)>>

\* the external calls of ContextReset, in order
ContextResetCalls(buildOk, linkOk) ==
    (IF RendererInPlace
     THEN <<Call("DeInitRenderer", <<>>)>>
     ELSE <<>>)
    \o <<Call("GLSM_CTL_STATE_CONTEXT_RESET", <<>>),
         Call("GLSM_CTL_STATE_SETUP", <<>>),
         Call("GLSM_CTL_STATE_BIND", <<>>),
         Call("InitRenderer", <<>>)>>
    \o SetupOpenGl(GlsmContextReset(glObjects), buildOk, linkOk).calls
    \o ContextResetUnbind(buildOk /\ linkOk)

\* mutant of ContextInitializedAfterSetup: a failed setup leaves the flag as it was
ContextInitializedOnceSet(ok) == context_initialized \/ ok

\* context_initialized = SetupOpenGl(): the flag takes the result, true or false
ContextInitializedAfterSetup(ok) == ok

\* the effect of ContextReset on the state of opengl.cpp and on the renderer
ContextResetEffect(buildOk, linkOk) ==
    LET r == SetupOpenGl(GlsmContextReset(glObjects), buildOk, linkOk)
    IN  /\ gpu3dRenderer' = currentRenderer
        /\ context_initialized' = ContextInitializedAfterSetup(r.ok)
        /\ shader' = r.shader
        /\ ubo' = r.ubo
        /\ vbo' = r.vbo
        /\ vao' = r.vao
        /\ screen_framebuffer_texture' = r.texture
        /\ glObjects' = r.objects
        /\ GL_ShaderConfig' = r.config
        /\ refresh_opengl' = r.refresh
        /\ UNCHANGED <<screen_vertices, currentRenderer>>

\* a glDelete* call: the name, and 1 when an object of that name was live
DeleteCall(c, kind, name) ==
    Call(c, <<name, IF <<kind, name>> \in glObjects THEN 1 ELSE 0>>)

\* the external calls of context_destroy, in order
ContextDestroyCalls ==
    <<Call("GLSM_CTL_STATE_BIND", <<>>),
      DeleteCall("glDeleteTextures", "texture", screen_framebuffer_texture),
      DeleteCall("glDeleteVertexArrays", "vao", vao),
      DeleteCall("glDeleteBuffers", "buffer", vbo),
      DeleteCall("DeleteShaderProgram", "program", shader),
      Call("GLSM_CTL_STATE_UNBIND", <<>>)>>

\* the GL objects context_destroy leaves
ContextDestroyObjects ==
    glObjects \ {<<"texture", screen_framebuffer_texture>>, <<"vao", vao>>,
                 <<"buffer", vbo>>, <<"program", shader>>}

\* the effect of context_destroy on the state of opengl.cpp
ContextDestroyEffect ==
    /\ glObjects' = ContextDestroyObjects
    /\ UNCHANGED <<refresh_opengl, context_initialized, shader,
                   screen_framebuffer_texture, screen_vertices, vao, vbo, ubo,
                   GL_ShaderConfig>>

(***************************************************************************)
(* History kept for the properties.                                        *)
(***************************************************************************)
\* resetCycle: 1 after a successful reset, 2 after a destroy following it,
\* 3 after the successful reset following that, 4 after the first Render after it
CycleAfter(event) ==
    CASE event = "reset_ok" -> IF resetCycle = 2 THEN 3 ELSE 1
      [] event = "reset_fail" -> 0
      [] event = "destroy" -> IF resetCycle \in {1, 3, 4} THEN 2 ELSE 0
      [] event = "render" ->
            IF resetCycle = 3 THEN 4 ELSE IF resetCycle = 4 THEN 1 ELSE resetCycle
      [] OTHER -> resetCycle

DestroyOps == {"context_destroy", "HardwareContextDestroyed"}

Record(name, ok, cursor, event) ==
    /\ lastOp' = Op(name, ok, cursor, lastOp.name \in DestroyOps)
    /\ resetCycle' = CycleAfter(event)

(***************************************************************************)
(* Initial state: the statics of opengl.cpp and libretro.cpp at load time. *)
(***************************************************************************)
Init ==
    /\ refresh_opengl = TRUE
    /\ context_initialized = FALSE
    /\ shader = 0
    /\ screen_framebuffer_texture = 0
    /\ screen_vertices = ZeroVertices
    /\ vao = 0
    /\ vbo = 0
    /\ ubo = 0
    /\ GL_ShaderConfig = ZeroShaderConfig
    /\ glObjects = {}
    /\ gpu3dRenderer = "null"
    /\ currentRenderer = "Software"
    /\ screenLayout \in LifecycleScreenLayoutData
    /\ coreInitialized = FALSE
    /\ Console = "null"
    /\ frames = 0
    /\ taskInitialized = FALSE
    /\ errorMessage = "none"
    /\ shutdownRequested = FALSE
    /\ uncaught = "none"
    /\ trace = <<>>
    /\ lastOp = Op("none", TRUE, FALSE, FALSE)
    /\ resetCycle = 0

(***************************************************************************)
(* Host entry points of libretro.cpp.                                      *)
(***************************************************************************)
\* the classes the catch clauses of libretro.cpp tell apart
ExceptionClasses == {"opengl_exception", "emulator_exception", "std_exception", "unknown"}

\* what an engine call may raise ("none": it returns)
EngineFailures == ExceptionClasses \cup {"none"}

\* exception e raised by the engine call `call` leaves an entry point that has no
\* try block (or is noexcept): the process ends there, and nothing of its
\* state is left
Uncaught(call, e) ==
    /\ uncaught' = e
    /\ trace' = <<Call(call, <<>>), Call("throw", <<e>>)>>
    /\ lastOp' = Op("uncaught", FALSE, FALSE, FALSE)
    /\ resetCycle' = 0
    /\ refresh_opengl' = TRUE
    /\ context_initialized' = FALSE
    /\ shader' = 0
    /\ screen_framebuffer_texture' = 0
    /\ screen_vertices' = ZeroVertices
    /\ vao' = 0
    /\ vbo' = 0
    /\ ubo' = 0
    /\ GL_ShaderConfig' = ZeroShaderConfig
    /\ glObjects' = {}
    /\ gpu3dRenderer' = "null"
    /\ coreInitialized' = FALSE
    /\ Console' = "null"
    /\ frames' = 0
    /\ taskInitialized' = FALSE
    /\ UNCHANGED <<currentRenderer, screenLayout, errorMessage, shutdownRequested>>

retro_init ==
    /\ uncaught = "none"
    /\ ~coreInitialized
    /\ Console = "null"
    /\ taskInitialized' = TRUE
    /\ coreInitialized' = TRUE
    /\ trace' = <<Call("env_init", <<>>), Call("task_init", <<>>),
                  Call("CoreState", <<>>)>>
    /\ Record("retro_init", TRUE, FALSE, "other")
    /\ UNCHANGED <<glVars, rendererVars, screenLayout, Console, frames, hostVars>>

\* Core.LoadGame: validates the content and constructs the console
LoadGame(ok, renderer) ==
    /\ Console' = IF ok THEN "console" ELSE Console
    /\ frames' = IF ok THEN 0 ELSE frames
    /\ currentRenderer' = IF ok THEN renderer ELSE currentRenderer

retro_load_game(ok, renderer, raised) ==
    /\ uncaught = "none"
    /\ coreInitialized
    /\ Console = "null"
    /\ ~shutdownRequested
    /\ IF raised = "none"
       THEN /\ LoadGame(ok, renderer)
            /\ trace' = <<Call("LoadGame", <<>>)>>
            /\ Record("retro_load_game", ok, FALSE, "other")
            /\ UNCHANGED <<glVars, gpu3dRenderer, screenLayout, coreInitialized,
                           taskInitialized, hostVars>>
       ELSE Uncaught("LoadGame", raised)

\* the same call of Core.LoadGame, with the game type and count the host passes
retro_load_game_special(ok, renderer, raised) ==
    /\ uncaught = "none"
    /\ coreInitialized
    /\ Console = "null"
    /\ ~shutdownRequested
    /\ IF raised = "none"
       THEN /\ LoadGame(ok, renderer)
            /\ trace' = <<Call("LoadGame", <<>>)>>
            /\ Record("retro_load_game_special", ok, FALSE, "other")
            /\ UNCHANGED <<glVars, gpu3dRenderer, screenLayout, coreInitialized,
                           taskInitialized, hostVars>>
       ELSE Uncaught("LoadGame", raised)

\* Core.Run: one emulated frame, then the presenter when the OpenGL renderer is
\* selected and ContextInitialized() holds
Run(state, cursorSize) ==
    /\ frames' = (frames + 1) % (MaxFrames + 1)
    /\ IF UsingOpenGl /\ context_initialized
       THEN /\ Render(state, cursorSize)
            /\ Record("retro_run", TRUE, state.cursorEnabled, "render")
       ELSE /\ trace' = <<>>
            /\ Record("retro_run", FALSE, state.cursorEnabled, "other")
            /\ UNCHANGED glVars

retro_run(state, cursorSize, raised) ==
    /\ uncaught = "none"
    /\ coreInitialized
    /\ Console # "null"
    /\ ~shutdownRequested
    /\ IF raised = "none"
       THEN /\ Run(state, cursorSize)
            /\ UNCHANGED <<rendererVars, screenLayout, coreInitialized, Console,
                           taskInitialized, hostVars>>
       ELSE Uncaught("Run", raised)

\* Core.UnloadGame: releases the console
UnloadGame ==
    /\ Console' = "null"
    /\ frames' = 0

\* mutant of UnloadGameCalls: the console is released before the tasks are joined
UnloadGameCallsReleaseFirst ==
    <<Call("task_reset", <<>>), Call("UnloadGame", <<>>), Call("task_wait", <<>>),
      Call("task_deinit", <<>>)>>

\* the calls of retro_unload_game, in order
UnloadGameCalls ==
    <<Call("task_reset", <<>>), Call("task_wait", <<>>), Call("task_deinit", <<>>),
      Call("UnloadGame", <<>>)>>

retro_unload_game(raised) ==
    /\ uncaught = "none"
    /\ coreInitialized
    /\ Console # "null"
    /\ IF raised = "none"
       THEN /\ taskInitialized' = FALSE
            /\ UnloadGame
            /\ trace' = UnloadGameCalls
            /\ Record("retro_unload_game", TRUE, FALSE, "other")
            /\ UNCHANGED <<glVars, rendererVars, screenLayout, coreInitialized,
                           hostVars>>
       ELSE Uncaught("UnloadGame", raised)

\* mutant of CoreStateDestructor: the destructor leaves the console in place
CoreStateDestructorKeepsConsole == [initialized |-> FALSE, console |-> Console]

\* Core.~CoreState(): what it leaves, on a constructed object and on one
\* that was already destructed
CoreStateDestructor == [initialized |-> FALSE, console |-> "null"]

\* no guard on the core's state: the asserts of retro_deinit come after the teardown
retro_deinit ==
    /\ uncaught = "none"
    /\ taskInitialized' = FALSE
    /\ LET d == CoreStateDestructor
           asserted == ~d.initialized /\ d.console = "null"
       IN  /\ coreInitialized' = d.initialized
           /\ Console' = d.console
           /\ uncaught' = IF asserted THEN "none" ELSE "assertion"
           /\ trace' = <<Call("task_deinit", <<>>), Call("~CoreState", <<>>)>>
                        \o (IF asserted THEN <<Call("env_deinit", <<>>)>> ELSE <<>>)
    /\ frames' = 0
    /\ errorMessage' = "none"
    /\ shutdownRequested' = FALSE
    /\ Record("retro_deinit", coreInitialized, FALSE, "other")
    /\ UNCHANGED <<glVars, rendererVars, screenLayout>>

\* Core.Reset: restarts the console; a reset that fails may have restarted it or not
Reset(raised) ==
    /\ frames' \in (IF raised = "none" THEN {0} ELSE {0, frames})
    /\ UNCHANGED <<glVars, rendererVars, screenLayout, coreInitialized, Console,
                   taskInitialized>>

\* mutant of ResetCatchCalls: the clause for std::exception only sets the message
ResetCatchCallsNoShutdown(e) ==
    CASE e = "none" -> <<>>
      [] e \in {"opengl_exception", "emulator_exception"} ->
            <<Call("retro_error", <<>>), Call("set_error_message", <<>>),
              Call("shutdown", <<>>)>>
      [] e = "std_exception" -> <<Call("set_error_message", <<>>)>>
      [] OTHER -> <<Call("set_error_message", <<>>), Call("shutdown", <<>>)>>

\* the calls of the catch clause of retro_reset entered for exception e
ResetCatchCalls(e) ==
    CASE e = "none" -> <<>>
      [] e \in {"opengl_exception", "emulator_exception"} ->
            <<Call("retro_error", <<>>), Call("set_error_message", <<>>),
              Call("shutdown", <<>>)>>
      [] e = "std_exception" ->
            <<Call("set_error_message", <<>>), Call("shutdown", <<>>)>>
      [] OTHER -> <<Call("set_error_message", <<>>), Call("shutdown", <<>>)>>

\* the argument of the retro::set_error_message of that clause
ResetCatchMessage(e) ==
    CASE e \in {"opengl_exception", "emulator_exception"} -> "user_message"
      [] e = "std_exception" -> "what"
      [] OTHER -> "An unknown error has occurred."

\* the host's state after a list of calls: the last message set, and whether
\* shutdown was requested
HostAfter(calls, message) ==
    [errorMessage |-> IF \E i \in 1..Len(calls) : calls[i].call = "set_error_message"
                      THEN message ELSE errorMessage,
     shutdownRequested |-> shutdownRequested
                           \/ \E i \in 1..Len(calls) : calls[i].call = "shutdown"]

retro_reset(raised) ==
    /\ uncaught = "none"
    /\ coreInitialized
    /\ Console # "null"
    /\ ~shutdownRequested
    /\ Reset(raised)
    /\ LET calls == ResetCatchCalls(raised)
           host == HostAfter(calls, ResetCatchMessage(raised))
       IN  /\ trace' = <<Call("Reset", <<>>)>> \o calls
           /\ errorMessage' = host.errorMessage
           /\ shutdownRequested' = host.shutdownRequested
    /\ UNCHANGED uncaught
    /\ Record("retro_reset", raised = "none", FALSE, "other")

(***************************************************************************)
(* Entry points of opengl.cpp.                                             *)
(***************************************************************************)
RequestOpenGlRefresh ==
    /\ uncaught = "none"
    /\ coreInitialized
    /\ Console # "null"
    /\ ~shutdownRequested
    /\ ~refresh_opengl
    /\ refresh_opengl' = TRUE
    /\ trace' = <<>>
    /\ Record("RequestOpenGlRefresh", TRUE, FALSE, "other")
    /\ UNCHANGED <<context_initialized, shader, screen_framebuffer_texture,
                   screen_vertices, vao, vbo, ubo, GL_ShaderConfig, glObjects,
                   rendererVars, screenLayout, coreVars, hostVars>>

\* a configuration change: new layout data, and the geometry refresh it must request
UpdateScreenLayout(L) ==
    /\ uncaught = "none"
    /\ coreInitialized
    /\ Console # "null"
    /\ ~shutdownRequested
    /\ L # screenLayout
    /\ screenLayout' = L
    /\ refresh_opengl' = TRUE
    /\ trace' = <<>>
    /\ Record("UpdateScreenLayout", TRUE, FALSE, "other")
    /\ UNCHANGED <<context_initialized, shader, screen_framebuffer_texture,
                   screen_vertices, vao, vbo, ubo, GL_ShaderConfig, glObjects,
                   rendererVars, coreVars, hostVars>>

\* the glsm context_reset callback
ContextReset(buildOk, linkOk) ==
    /\ uncaught = "none"
    /\ coreInitialized
    /\ Console # "null"
    /\ ~shutdownRequested
    /\ ContextResetEffect(buildOk, linkOk)
    /\ trace' = ContextResetCalls(buildOk, linkOk)
    /\ Record("ContextReset", buildOk /\ linkOk, FALSE,
              IF buildOk /\ linkOk THEN "reset_ok" ELSE "reset_fail")
    /\ UNCHANGED <<screenLayout, coreVars, hostVars>>

\* the glsm context_destroy callback
context_destroy ==
    /\ uncaught = "none"
    /\ coreInitialized
    /\ Console # "null"
    /\ ~shutdownRequested
    /\ ContextDestroyEffect
    /\ trace' = ContextDestroyCalls
    /\ Record("context_destroy", TRUE, FALSE, "destroy")
    /\ UNCHANGED <<rendererVars, screenLayout, coreVars, hostVars>>

(***************************************************************************)
(* MelonDsDs::HardwareContextReset and HardwareContextDestroyed.           *)
(***************************************************************************)
\* Core.ResetRenderState: the context reset
ResetRenderState(buildOk, linkOk) == ContextResetEffect(buildOk, linkOk)

\* what Core.ResetRenderState throws: a failed setup is raised as an
\* opengl_exception, and `raised` is a failure of another part of the reset
ResetRenderStateThrows(buildOk, linkOk, raised) ==
    IF ~(buildOk /\ linkOk) THEN "opengl_exception" ELSE raised

\* the calls of the catch clause entered for exception e ("none": no clause)
CatchCalls(e) ==
    CASE e = "none" -> <<>>
      [] e \in {"opengl_exception", "emulator_exception"} ->
            <<Call("retro_error", <<>>), Call("set_error_message", <<>>),
              Call("shutdown", <<>>)>>
      [] OTHER -> <<Call("set_error_message", <<>>), Call("shutdown", <<>>)>>

\* the host's error message after the try block: set by the catch clause entered
CatchMessage(e) ==
    CASE e = "none" -> errorMessage
      [] e \in {"opengl_exception", "emulator_exception"} -> "user_message"
      [] e = "std_exception" -> "what"
      [] OTHER -> "unknown_error"

\* mutant of CatchShutdown: retro::shutdown is called after the try block as well
CatchShutdownAlways(e) == TRUE

\* the host's shutdown request after the try block: every catch clause calls retro::shutdown
CatchShutdown(e) == IF e = "none" THEN shutdownRequested ELSE TRUE

HardwareContextReset(buildOk, linkOk, raised) ==
    /\ uncaught = "none"
    /\ (buildOk /\ linkOk) \/ raised = "opengl_exception"
    /\ coreInitialized
    /\ Console # "null"
    /\ ~shutdownRequested
    /\ ResetRenderState(buildOk, linkOk)
    /\ LET e == ResetRenderStateThrows(buildOk, linkOk, raised)
       IN  /\ trace' = ContextResetCalls(buildOk, linkOk) \o CatchCalls(e)
           /\ errorMessage' = CatchMessage(e)
           /\ shutdownRequested' = CatchShutdown(e)
           /\ UNCHANGED uncaught
           /\ Record("HardwareContextReset", e = "none", FALSE,
                     IF buildOk /\ linkOk THEN "reset_ok" ELSE "reset_fail")
    /\ UNCHANGED <<screenLayout, coreVars>>

\* Core.DestroyRenderState: the context destroy
DestroyRenderState == ContextDestroyEffect

HardwareContextDestroyed(raised) ==
    /\ uncaught = "none"
    /\ coreInitialized
    /\ Console # "null"
    /\ ~shutdownRequested
    /\ IF raised = "none"
       THEN /\ DestroyRenderState
            /\ trace' = ContextDestroyCalls
            /\ Record("HardwareContextDestroyed", TRUE, FALSE, "destroy")
            /\ UNCHANGED <<rendererVars, screenLayout, coreVars, hostVars>>
       ELSE Uncaught("DestroyRenderState", raised)

(***************************************************************************)
(* Specifications.                                                         *)
(***************************************************************************)
Next ==
    \/ retro_init
    \/ \E ok \in BOOLEAN, r \in Renderers, e \in EngineFailures :
          retro_load_game(ok, r, e)
    \/ \E ok \in BOOLEAN, r \in Renderers, e \in EngineFailures :
          retro_load_game_special(ok, r, e)
    \/ \E state \in LifecycleInputStates, cs \in CursorSizes, e \in EngineFailures :
          retro_run(state, cs, e)
    \/ \E e \in EngineFailures : retro_unload_game(e)
    \/ retro_deinit
    \/ \E e \in EngineFailures : retro_reset(e)
    \/ RequestOpenGlRefresh
    \/ \E L \in LifecycleScreenLayoutData : UpdateScreenLayout(L)
    \/ \E o \in ShaderOutcomes : ContextReset(o[1], o[2])
    \/ context_destroy
    \/ \E o \in ShaderOutcomes, e \in ExceptionClasses \cup {"none"} :
          HardwareContextReset(o[1], o[2], e)
    \/ \E e \in EngineFailures : HardwareContextDestroyed(e)

Spec == Init /\ [][Next]_vars

\* the program after retro_init, retro_load_game and a successful ContextReset,
\* with any layout data: the state the frames of a session start from
GeomInit ==
    /\ refresh_opengl = TRUE
    /\ context_initialized = TRUE
    /\ shader = 1
    /\ screen_framebuffer_texture = 1
    /\ screen_vertices = ZeroVertices
    /\ vao = 1
    /\ vbo = 2
    /\ ubo = 1
    /\ GL_ShaderConfig = ZeroShaderConfig
    /\ glObjects = {<<"program", 1>>, <<"buffer", 1>>, <<"buffer", 2>>,
                    <<"vao", 1>>, <<"texture", 1>>}
    /\ gpu3dRenderer = "OpenGl"
    /\ currentRenderer = "OpenGl"
    /\ screenLayout \in AllScreenLayoutData
    /\ coreInitialized = TRUE
    /\ Console = "console"
    /\ frames = 0
    /\ taskInitialized = TRUE
    /\ errorMessage = "none"
    /\ shutdownRequested = FALSE
    /\ uncaught = "none"
    /\ trace = <<Call("GLSM_CTL_STATE_CONTEXT_RESET", <<>>),
                 Call("GLSM_CTL_STATE_SETUP", <<>>),
                 Call("GLSM_CTL_STATE_BIND", <<>>),
                 Call("InitRenderer", <<>>),
                 Call("BuildShaderProgram", <<1>>),
                 Call("LinkShaderProgram", <<1>>),
                 Call("glGenBuffers", <<1>>),
                 Call("glGenBuffers", <<2>>),
                 Call("glGenVertexArrays", <<1>>),
                 Call("glGenTextures", <<1>>),
                 Call("GLSM_CTL_STATE_UNBIND", <<>>)>>
    /\ lastOp = Op("ContextReset", TRUE, FALSE, FALSE)
    /\ resetCycle = 1

GeomNext ==
    \/ \E state \in InputStates, cs \in CursorSizes : retro_run(state, cs, "none")
    \/ RequestOpenGlRefresh

\* the frames of one session, for every layout data
SpecGeometry == GeomInit /\ [][GeomNext]_vars

\* the layout setting changes while the screen dimensions stay the same
SwitchLayout ==
    \E l \in ScreenLayouts : UpdateScreenLayout([screenLayout EXCEPT !.layout = l])

LayoutSwitchNext ==
    \/ \E state \in LifecycleInputStates, cs \in CursorSizes :
          retro_run(state, cs, "none")
    \/ SwitchLayout

\* a session that starts in the TopBottom layout, with any screen dimensions
LayoutSwitchInit == GeomInit /\ screenLayout.layout = "TopBottom"

\* the frames of one session in which the user switches between layouts
SpecLayoutSwitch == LayoutSwitchInit /\ [][LayoutSwitchNext]_vars

(***************************************************************************)
(* Properties.                                                             *)
(***************************************************************************)
\* positions in a call list of the calls named c
CallsNamed(t, c) == {i \in 1..Len(t) : t[i].call = c}

\* the last handler was a retro_run that reached Render
Rendered == lastOp.name = "retro_run" /\ lastOp.ok

\* the last Render found the refresh flag set and rebuilt the frame state
FrameBuilt == Rendered /\ CallsNamed(trace, "glBufferSubData") # {}

\* the quads (0, 1, 2: slots 6q..6q+5) InitializeFrameState writes for L
WrittenQuads(L) == {q \in 0..2 : (6 * q) \in WrittenSlots(L)}

QuadSlots(q) == (6 * q)..(6 * q + 5)

\* quad q of the vertex buffer samples the top (bottom) half of the texture
SamplesTop(q) == \E i \in QuadSlots(q) : ~RatLe(Rat(1, 2), screen_vertices[i].t_y)

SamplesBottom(q) == \E i \in QuadSlots(q) : ~RatLe(screen_vertices[i].t_y, Rat(1, 2))

\* the program, the three buffers' and the texture's handles name live objects
HandlesLive ==
    {<<"program", shader>>, <<"buffer", ubo>>, <<"buffer", vbo>>, <<"vao", vao>>,
     <<"texture", screen_framebuffer_texture>>} \subseteq glObjects

(* C1: the vertex count Render draws equals the number of vertices            *)
(* InitializeFrameState writes for the same layout data (12 for a non-hybrid  *)
(* layout, 18 for a hybrid layout with SmallScreenDuplicate), and the draw    *)
(* covers no slot that was not written for it.                                *)
C1_DrawCountMatchesWrittenVertices ==
    Rendered =>
        \A i \in CallsNamed(trace, "glDrawArrays") :
            /\ trace[i].args[1] = Cardinality(WrittenSlots(screenLayout))
            /\ 0..(trace[i].args[1] - 1) \subseteq WrittenSlots(screenLayout)
            /\ ~IsHybridLayout(screenLayout) => trace[i].args[1] = 12
            /\ (IsHybridLayout(screenLayout)
                /\ screenLayout.hybridSmallScreenLayout = "SmallScreenDuplicate")
               => trace[i].args[1] = 18

\* the last SetupOpenGl succeeded: context_initialized is written by ContextReset
\* alone, with the result of SetupOpenGl
LastSetupSucceeded == context_initialized

(* C2: after a successful reset, a context destroy that directly follows      *)
(* another context destroy is a no-op: it deletes nothing, and it issues no   *)
(* delete call (texture, vertex array, buffer, shader program) for a handle   *)
(* whose object the first destroy has already deleted.                        *)
C2_SecondDestroyIsNoOp ==
    (lastOp.name \in DestroyOps /\ lastOp.afterDestroy /\ LastSetupSucceeded) =>
        \A i \in 1..Len(trace) :
            trace[i].call \in {"glDeleteTextures", "glDeleteVertexArrays",
                               "glDeleteBuffers", "DeleteShaderProgram"}
            => (trace[i].args[1] = 0 /\ trace[i].args[2] = 0)

(* C3: ContextInitialized() is false after a context destroy, and is true     *)
(* only while the objects of the last successful reset are live.              *)
C3_InitializedOnlyWhileObjectsLive ==
    /\ lastOp.name \in DestroyOps => ~context_initialized
    /\ context_initialized => HandlesLive

(* C4: after a context destroy no GL object allocated by SetupOpenGl          *)
(* (program, VBO, VAO, UBO, texture) is live.                                 *)
C4_DestroyReleasesEveryObject ==
    lastOp.name \in DestroyOps => glObjects = {}

(* C5: after reset, destroy, reset (both resets succeeding) every object is   *)
(* allocated again and the refresh flag is set until the next Render; that    *)
(* Render clears the framebuffer and uploads uniforms and vertices rebuilt    *)
(* from the layout data before it draws, and leaves the flag cleared.         *)
C5_ResetDestroyResetRebuilds ==
    /\ resetCycle = 3 =>
          /\ context_initialized
          /\ refresh_opengl
          /\ HandlesLive
          /\ Cardinality(glObjects) = 5
          /\ lastOp.name \in {"ContextReset", "HardwareContextReset"} =>
                /\ Cardinality(CallsNamed(trace, "glGenBuffers")) = 2
                /\ \A c \in {"BuildShaderProgram", "LinkShaderProgram",
                             "glGenVertexArrays", "glGenTextures"} :
                       Cardinality(CallsNamed(trace, c)) = 1
    /\ (resetCycle = 4 /\ Rendered) =>
          /\ ~refresh_opengl
          /\ \A c \in {"glClear", "glBufferSubData", "uploadUniforms"} :
                \E i \in CallsNamed(trace, c) :
                    \A j \in CallsNamed(trace, "glDrawArrays") : i < j
          /\ \A i \in WrittenSlots(screenLayout) :
                screen_vertices[i]
                    = InitializeFrameStateVertices(UnwrittenVertices, screenLayout)[i]
          /\ GL_ShaderConfig.uScreenSize
                = <<screenLayout.bufferWidth, screenLayout.bufferHeight>>

C5_Witness == resetCycle = 4 /\ Rendered /\ lastOp.cursor

(* C6: HardwareContextDestroyed, and a HardwareContextReset that succeeds,    *)
(* request no shutdown, set no error message and leave the core, the console  *)
(* and the emulated frame counter as they were; the reset leaves a renderer   *)
(* assigned and the GL objects allocated.                                     *)
C6_ContextLossKeepsSession ==
    [][(\/ lastOp'.name = "HardwareContextDestroyed"
        \/ (lastOp'.name = "HardwareContextReset" /\ lastOp'.ok))
       => /\ Console' = Console
          /\ frames' = frames
          /\ coreInitialized' = coreInitialized
          /\ taskInitialized' = taskInitialized
          /\ shutdownRequested' = shutdownRequested
          /\ errorMessage' = errorMessage
          /\ CallsNamed(trace', "shutdown") = {}
          /\ lastOp'.name = "HardwareContextReset"
                => (gpu3dRenderer' # "null" /\ HandlesLive')]_vars

C6_Witness ==
    /\ lastOp.name = "HardwareContextReset"
    /\ lastOp.ok
    /\ lastOp.afterDestroy
    /\ Console = "console"
    /\ frames = 1
    /\ ~shutdownRequested
    /\ HandlesLive

(* C7: after a Render whose frame had the cursor disabled, cursorPos[0..3]    *)
(* are all -1.0.                                                              *)
C7_CursorDisabledMeansSentinel ==
    (Rendered /\ ~lastOp.cursor) =>
        \A i \in 1..4 : RatEq(GL_ShaderConfig.cursorPos[i], Rat(-1, 1))

(* C8: every Render issues exactly one glDrawArrays and exactly one           *)
(* video_refresh, the draw first, and video_refresh gets the layout's buffer  *)
(* width and height.                                                          *)
C8_OneDrawThenOneVideoRefresh ==
    Rendered =>
        /\ Cardinality(CallsNamed(trace, "glDrawArrays")) = 1
        /\ Cardinality(CallsNamed(trace, "video_refresh")) = 1
        /\ \A i \in CallsNamed(trace, "glDrawArrays") :
              \A j \in CallsNamed(trace, "video_refresh") :
                  /\ i < j
                  /\ trace[j].args
                        = <<screenLayout.bufferWidth, screenLayout.bufferHeight>>

C8_Witness ==
    /\ Rendered
    /\ ~FrameBuilt
    /\ lastOp.cursor
    /\ screenLayout.layout = "HybridBottom"

(* C9: every quad InitializeFrameState writes lies on one side of the seam:   *)
(* a quad sampling the top screen has every v <= 0.5 - padding, a quad        *)
(* sampling the bottom screen has every v >= 0.5 + padding, for the padding   *)
(* used (pixel_pad) and for 1/(2H+2); in non-hybrid layouts quad 0 samples    *)
(* the top screen and quad 1 the bottom one, in hybrid layouts quad 0 samples *)
(* the primary screen.                                                        *)
C9_NoQuadSamplesAcrossSeam ==
    FrameBuilt =>
        LET H == screenLayout.screenHeight
            pads == {pixel_pad(H), Rat(1, 2 * H + 2)}
        IN  /\ \A q \in WrittenQuads(screenLayout) :
                  /\ SamplesTop(q) \/ SamplesBottom(q)
                  /\ SamplesTop(q) =>
                        \A i \in QuadSlots(q), p \in pads :
                            RatLe(screen_vertices[i].t_y, RatSub(Rat(1, 2), p))
                  /\ SamplesBottom(q) =>
                        \A i \in QuadSlots(q), p \in pads :
                            RatLe(RatAdd(Rat(1, 2), p), screen_vertices[i].t_y)
            /\ ~IsHybridLayout(screenLayout) => (SamplesTop(0) /\ SamplesBottom(1))
            /\ screenLayout.layout = "HybridTop" => SamplesTop(0)
            /\ screenLayout.layout = "HybridBottom" => SamplesBottom(0)

C9_Witness ==
    /\ FrameBuilt
    /\ screenLayout.layout = "HybridBottom"
    /\ screenLayout.hybridSmallScreenLayout = "SmallScreenDuplicate"
    /\ screenLayout.screenHeight = 2 * NDS_SCREEN_HEIGHT
    /\ WrittenQuads(screenLayout) = {0, 1, 2}

\* the distance of quad q's seam-side texture coordinate from 0.5 is pad
SeamPaddingIs(q, pad) ==
    /\ SamplesTop(q) =>
          \E i \in QuadSlots(q) :
              /\ RatEq(screen_vertices[i].t_y, RatSub(Rat(1, 2), pad))
              /\ \A j \in QuadSlots(q) :
                    RatLe(screen_vertices[j].t_y, screen_vertices[i].t_y)
    /\ SamplesBottom(q) =>
          \E i \in QuadSlots(q) :
              /\ RatEq(screen_vertices[i].t_y, RatAdd(Rat(1, 2), pad))
              /\ \A j \in QuadSlots(q) :
                    RatLe(screen_vertices[i].t_y, screen_vertices[j].t_y)

QuadOrigin(q) == <<screen_vertices[6 * q].x, screen_vertices[6 * q].y>>

\* where the top and the bottom screen's quads start in a non-hybrid layout
NonHybridOrigins(L) ==
    LET W == L.screenWidth
        H == L.screenHeight
        G == L.scaledScreenGap
    IN  CASE L.layout = "TopBottom" -> [top |-> <<0, 0>>, bottom |-> <<0, H + G>>]
          [] L.layout = "BottomTop" -> [top |-> <<0, H + G>>, bottom |-> <<0, 0>>]
          [] L.layout = "LeftRight" -> [top |-> <<0, 0>>, bottom |-> <<W, 0>>]
          [] L.layout = "RightLeft" -> [top |-> <<W, 0>>, bottom |-> <<0, 0>>]

(* C11: after a frame is rebuilt for a non-hybrid layout with screen width W, *)
(* height H and gap G, the top quad (slots 0..5) and the bottom quad (slots   *)
(* 6..11) start at: TopBottom (0,0) and (0,H+G); BottomTop (0,H+G) and (0,0); *)
(* LeftRight (0,0) and (W,0); RightLeft (W,0) and (0,0), whatever layout the  *)
(* vertex buffer was built for before.                                        *)
C11_NonHybridQuadOrigins ==
    (FrameBuilt
        /\ screenLayout.layout \in {"TopBottom", "BottomTop", "LeftRight", "RightLeft"})
    => /\ QuadOrigin(0) = NonHybridOrigins(screenLayout).top
       /\ QuadOrigin(1) = NonHybridOrigins(screenLayout).bottom
       /\ SamplesTop(0)
       /\ SamplesBottom(1)

\* 256x192, gap 0, LeftRight, rebuilt: top quad at (0,0), bottom quad at (256,0)
C11_Witness ==
    /\ FrameBuilt
    /\ screenLayout.layout = "LeftRight"
    /\ screenLayout.screenWidth = 256
    /\ screenLayout.screenHeight = 192
    /\ screenLayout.scaledScreenGap = 0
    /\ QuadOrigin(0) = <<0, 0>>
    /\ QuadOrigin(1) = <<256, 0>>

\* how many calls named c the last handler made
CallCount(c) == Cardinality(CallsNamed(trace, c))

(* C12: when Core.Reset() fails inside retro_reset, whatever the class of the  *)
(* failure, retro_reset calls Core.Reset once (no retry), sets the host's      *)
(* error message once, requests shutdown once, after the failed reset, and     *)
(* returns to the host without an exception.                                   *)
C12_ResetFailureReportedOnce ==
    (lastOp.name = "retro_reset" /\ ~lastOp.ok)
    => /\ CallCount("Reset") = 1
       /\ CallCount("set_error_message") = 1
       /\ CallCount("shutdown") = 1
       /\ trace[1].call = "Reset"
       /\ trace[Len(trace)].call = "shutdown"
       /\ errorMessage # "none"
       /\ shutdownRequested
       /\ uncaught = "none"

\* a reset that failed with an exception of no known class was reported
C12_Witness ==
    /\ lastOp.name = "retro_reset"
    /\ ~lastOp.ok
    /\ errorMessage = "An unknown error has occurred."
    /\ shutdownRequested
    /\ CallCount("retro_error") = 0

\* the last handler was a context reset whose SetupOpenGl did not succeed or
\* whose render-state reset raised a failure
ResetFailed == lastOp.name \in {"ContextReset", "HardwareContextReset"} /\ ~lastOp.ok

(* C13: when a context reset fails to enter Ready (the shader build or link    *)
(* fails, or the render-state reset raises a failure), a user-facing error     *)
(* message is set and a host shutdown is requested.                            *)
C13_FailedResetIsSurfaced ==
    ResetFailed => (errorMessage # "none" /\ shutdownRequested)

(* C14: retro_deinit may be called in any state, twice in a row or after      *)
(* retro_init with no game loaded: each call completes with its assertions     *)
(* satisfied (core not initialized, Console null), which are the preconditions *)
(* retro_init asserts, and a call that follows another retro_deinit changes    *)
(* nothing.                                                                    *)
C14_DeinitIsIdempotent ==
    [][(uncaught = "none" /\ lastOp'.name = "retro_deinit")
       => /\ uncaught' = "none"
          /\ ~coreInitialized'
          /\ Console' = "null"
          /\ ~taskInitialized'
          /\ trace'[Len(trace')].call = "env_deinit"
          /\ (lastOp.name = "retro_deinit"
               => UNCHANGED <<glVars, rendererVars, screenLayout, coreVars,
                              hostVars>>)]_vars

\* after a session that reached a context reset, retro_deinit completed on a
\* core that an earlier retro_deinit had already torn down
C14_Witness ==
    /\ lastOp.name = "retro_deinit"
    /\ ~lastOp.ok
    /\ context_initialized
    /\ ~coreInitialized
    /\ Console = "null"
    /\ uncaught = "none"

(* C15: a failure raised by the engine during any host-driven entry point     *)
(* (retro_run, retro_load_game, retro_load_game_special, retro_unload_game,    *)
(* HardwareContextDestroyed as well as retro_reset and HardwareContextReset)   *)
(* is caught there and turned into a logged message, an error message and a    *)
(* shutdown request: no exception leaves an entry point or ends the process.   *)
C15_NoFailureLeavesAnEntryPoint ==
    /\ uncaught = "none"
    /\ CallsNamed(trace, "throw") # {}
          => (CallCount("set_error_message") = 1 /\ CallCount("shutdown") = 1)

\* the handlers that set the refresh flag: RequestOpenGlRefresh, also called
\* on a layout change, and a context reset whose SetupOpenGl succeeds
RefreshSetters == {"RequestOpenGlRefresh", "UpdateScreenLayout"}

ResetSucceeded == lastOp.name \in {"ContextReset", "HardwareContextReset"} /\ context_initialized

(* C16: a Render that finds the refresh flag set clears the framebuffer,      *)
(* rebuilds the uniform block and the vertex buffer from the current layout   *)
(* and leaves the flag cleared; a Render that finds it clear leaves the       *)
(* vertex buffer and the screen-size, scale and filter uniforms unchanged and *)
(* rebuilds nothing; the flag becomes set only in RequestOpenGlRefresh or in  *)
(* a context reset whose SetupOpenGl succeeds.                                *)
C16_RefreshFlagProtocol ==
    [][uncaught' = "none" =>
        /\ (Rendered' /\ refresh_opengl) =>
              /\ ~refresh_opengl'
              /\ \A c \in {"glClear", "uploadUniforms", "glBufferSubData"} :
                    \E i \in CallsNamed(trace', c) :
                        \A j \in CallsNamed(trace', "glDrawArrays") : i < j
              /\ \A i \in WrittenSlots(screenLayout) :
                    screen_vertices'[i]
                        = InitializeFrameStateVertices(UnwrittenVertices, screenLayout)[i]
              /\ GL_ShaderConfig'.uScreenSize
                    = <<screenLayout.bufferWidth, screenLayout.bufferHeight>>
              /\ GL_ShaderConfig'.u3DScale = screenLayout.scaleFactor
        /\ (Rendered' /\ ~refresh_opengl) =>
              /\ ~refresh_opengl'
              /\ screen_vertices' = screen_vertices
              /\ GL_ShaderConfig'.uScreenSize = GL_ShaderConfig.uScreenSize
              /\ GL_ShaderConfig'.u3DScale = GL_ShaderConfig.u3DScale
              /\ GL_ShaderConfig'.uFilterMode = GL_ShaderConfig.uFilterMode
              /\ CallsNamed(trace', "glClear") = {}
              /\ CallsNamed(trace', "glBufferSubData") = {}
        /\ (~refresh_opengl /\ refresh_opengl') =>
              (lastOp'.name \in RefreshSetters \/ ResetSucceeded')]_vars

\* a Render found the flag clear and drew the vertex buffer an earlier Render built
C16_Witness ==
    /\ Rendered
    /\ ~FrameBuilt
    /\ ~refresh_opengl
    /\ CallCount("glDrawArrays") = 1
    /\ \A i \in WrittenSlots(screenLayout) :
          screen_vertices[i]
              = InitializeFrameStateVertices(UnwrittenVertices, screenLayout)[i]

\* the positions of the calls named c in the calls of the step's handler
CallsNamedNext(c) == CallsNamed(trace', c)

(* C17: a context reset calls GPU::DeInitRenderer exactly when the OpenGL     *)
(* renderer is selected and a 3D renderer is assigned on entry, and then once *)
(* and before the function pointers are re-resolved; it calls                 *)
(* GPU::InitRenderer exactly once, after both and before SetupOpenGl, so the  *)
(* renderer a reset tears down is replaced in the same reset and no renderer  *)
(* is torn down twice.                                                        *)
C17_TeardownOnlyOfAssignedRenderer ==
    [][lastOp'.name \in {"ContextReset", "HardwareContextReset"} =>
        /\ Cardinality(CallsNamedNext("DeInitRenderer"))
              = (IF currentRenderer = "OpenGl" /\ gpu3dRenderer # "null" THEN 1 ELSE 0)
        /\ Cardinality(CallsNamedNext("InitRenderer")) = 1
        /\ Cardinality(CallsNamedNext("GLSM_CTL_STATE_CONTEXT_RESET")) = 1
        /\ \A d \in CallsNamedNext("DeInitRenderer") :
              /\ \A r \in CallsNamedNext("GLSM_CTL_STATE_CONTEXT_RESET") : d < r
              /\ \E i \in CallsNamedNext("InitRenderer") : d < i
        /\ \A i \in CallsNamedNext("InitRenderer") :
              /\ \A r \in CallsNamedNext("GLSM_CTL_STATE_CONTEXT_RESET") : r < i
              /\ \A b \in CallsNamedNext("BuildShaderProgram") : i < b
        /\ CallsNamedNext("BuildShaderProgram") # {}
        /\ gpu3dRenderer' # "null"]_vars

\* a context reset found the renderer of the previous reset and tore it down
C17_Witness ==
    /\ lastOp.name = "ContextReset"
    /\ lastOp.ok
    /\ CallCount("DeInitRenderer") = 1
    /\ trace[1].call = "DeInitRenderer"
    /\ gpu3dRenderer = "OpenGl"

\* the one call named c of the last handler comes before the one named d
CallBefore(c, d) ==
    /\ CallCount(c) = 1
    /\ CallCount(d) = 1
    /\ \A i \in CallsNamed(trace, c), j \in CallsNamed(trace, d) : i < j

(* C18: every retro_unload_game resets the task scheduler, waits for it and   *)
(* deinitializes it, in this order, and only then calls Core.UnloadGame(): the *)
(* console is released with no background task left running.                  *)
C18_TasksJoinedBeforeUnload ==
    lastOp.name = "retro_unload_game" =>
        /\ CallBefore("task_reset", "task_wait")
        /\ CallBefore("task_wait", "task_deinit")
        /\ CallBefore("task_deinit", "UnloadGame")
        /\ Len(trace) = 4
        /\ Console = "null"
        /\ ~taskInitialized

\* a game whose context had been reset was unloaded
C18_Witness ==
    /\ lastOp.name = "retro_unload_game"
    /\ Console = "null"
    /\ coreInitialized
    /\ context_initialized
    /\ CallCount("UnloadGame") = 1

\* the smallest and the largest member of a nonempty set of integers
MinOf(S) == CHOOSE m \in S : \A n \in S : m <= n

MaxOf(S) == CHOOSE m \in S : \A n \in S : n <= m

\* the rectangle quad q of the vertex buffer covers
QuadSpan(q) ==
    LET xs == {screen_vertices[i].x : i \in QuadSlots(q)}
        ys == {screen_vertices[i].y : i \in QuadSlots(q)}
    IN  <<MinOf(xs), MinOf(ys), MaxOf(xs), MaxOf(ys)>>

\* the screen quad q samples: the half of the texture all its vertices lie in
QuadScreen(q) ==
    IF \A i \in QuadSlots(q) : RatLe(screen_vertices[i].t_y, Rat(1, 2)) THEN "top"
    ELSE IF \A i \in QuadSlots(q) : RatLe(Rat(1, 2), screen_vertices[i].t_y) THEN "bottom"
    ELSE "both"

(* C19: in a hybrid layout with screen size W x H and ratio R, the primary    *)
(* quad spans (0,0)-(W*R,H*R) and samples the top screen for HybridTop, the   *)
(* bottom screen for HybridBottom; the secondary quad (slots 6..11) is always *)
(* written, at x = W*R: for SmallScreenTop it shows the other screen at y     *)
(* 0..H, for SmallScreenBottom the other screen at y H*R-H..H*R, and for      *)
(* SmallScreenDuplicate the top screen at y 0..H, with the bottom screen in   *)
(* slots 12..17 at y H*R-H..H*R.                                              *)
C19_HybridQuads ==
    (FrameBuilt /\ screenLayout.layout \in {"HybridTop", "HybridBottom"}) =>
        LET W == screenLayout.screenWidth
            H == screenLayout.screenHeight
            R == screenLayout.hybridRatio
            small == screenLayout.hybridSmallScreenLayout
            primaryScreen == IF screenLayout.layout = "HybridTop" THEN "top" ELSE "bottom"
            other == IF primaryScreen = "top" THEN "bottom" ELSE "top"
            topAligned == <<W * R, 0, W * R + W, H>>
            bottomAligned == <<W * R, H * R - H, W * R + W, H * R>>
        IN  /\ QuadSpan(0) = <<0, 0, W * R, H * R>>
            /\ QuadScreen(0) = primaryScreen
            /\ 1 \in WrittenQuads(screenLayout)
            /\ small = "SmallScreenTop" =>
                  /\ QuadSpan(1) = topAligned
                  /\ QuadScreen(1) = other
                  /\ WrittenQuads(screenLayout) = {0, 1}
            /\ small = "SmallScreenBottom" =>
                  /\ QuadSpan(1) = bottomAligned
                  /\ QuadScreen(1) = other
                  /\ WrittenQuads(screenLayout) = {0, 1}
            /\ small = "SmallScreenDuplicate" =>
                  /\ QuadSpan(1) = topAligned
                  /\ QuadScreen(1) = "top"
                  /\ QuadSpan(2) = bottomAligned
                  /\ QuadScreen(2) = "bottom"
                  /\ WrittenQuads(screenLayout) = {0, 1, 2}

\* HybridBottom with the small screen on top: the top screen beside the primary
C19_Witness ==
    /\ FrameBuilt
    /\ screenLayout.layout = "HybridBottom"
    /\ screenLayout.hybridSmallScreenLayout = "SmallScreenTop"
    /\ screenLayout.hybridRatio = 3
    /\ QuadScreen(0) = "bottom"
    /\ QuadScreen(1) = "top"
    /\ QuadSpan(1) = <<768, 0, 1024, 192>>

\* the corners in the order a quad lists them: left/right and top/bottom of
\* its vertices 0..5
CornerOrder ==
    <<[right |-> FALSE, bottom |-> FALSE], [right |-> FALSE, bottom |-> TRUE],
      [right |-> TRUE, bottom |-> TRUE], [right |-> FALSE, bottom |-> FALSE],
      [right |-> TRUE, bottom |-> FALSE], [right |-> TRUE, bottom |-> TRUE]>>

\* vertex k (0..5) of quad q is the corner c of the quad's rectangle, and its
\* texture coordinate is the one of that corner
VertexIsCorner(q, k, c) ==
    LET v == screen_vertices[6 * q + k]
        span == QuadSpan(q)
        vTop == screen_vertices[6 * q].t_y
        vBottom == screen_vertices[6 * q + 1].t_y
    IN  /\ v.x = (IF c.right THEN span[3] ELSE span[1])
        /\ v.y = (IF c.bottom THEN span[4] ELSE span[2])
        /\ v.t_x = (IF c.right THEN 1 ELSE 0)
        /\ RatEq(v.t_y, IF c.bottom THEN vBottom ELSE vTop)

(* C20: every quad InitializeFrameState writes, in every layout branch, lists *)
(* its vertices as top-left, bottom-left, bottom-right, top-left, top-right,  *)
(* bottom-right; each vertex has the texture coordinate of its corner: u = 0  *)
(* on the left and 1 on the right, and a smaller v on the top corners than on *)
(* the bottom corners.                                                        *)
C20_QuadCornerOrder ==
    FrameBuilt =>
        \A q \in WrittenQuads(screenLayout) :
            /\ QuadSpan(q)[1] < QuadSpan(q)[3]
            /\ QuadSpan(q)[2] < QuadSpan(q)[4]
            /\ ~RatLe(screen_vertices[6 * q + 1].t_y, screen_vertices[6 * q].t_y)
            /\ \A k \in 0..5 : VertexIsCorner(q, k, CornerOrder[k + 1])

\* three quads were written, and vertex 4 of the third is its top-right corner
C20_Witness ==
    /\ FrameBuilt
    /\ WrittenQuads(screenLayout) = {0, 1, 2}
    /\ screen_vertices[16].x = QuadSpan(2)[3]
    /\ screen_vertices[16].y = QuadSpan(2)[2]
    /\ screen_vertices[16].t_x = 1
    /\ screen_vertices[13].t_x = 0

\* the last handler was a context reset in which SetupOpenGl returned false: the
\* shader build or the link that followed it failed
SetupFailed ==
    /\ lastOp.name \in {"ContextReset", "HardwareContextReset"}
    /\ \E i \in 1..Len(trace) :
          /\ trace[i].call \in {"BuildShaderProgram", "LinkShaderProgram"}
          /\ trace[i].args[1] = 0

\* the GL objects the last handler created: <<kind, name>>
CreatedByLastHandler ==
    {<<"program", trace[i].args[1]>> : i \in CallsNamed(trace, "BuildShaderProgram")}
    \cup {<<"buffer", trace[i].args[1]>> : i \in CallsNamed(trace, "glGenBuffers")}
    \cup {<<"vao", trace[i].args[1]>> : i \in CallsNamed(trace, "glGenVertexArrays")}
    \cup {<<"texture", trace[i].args[1]>> : i \in CallsNamed(trace, "glGenTextures")}

EngineCallFailed ==
    lastOp.name \in {"retro_reset", "HardwareContextReset"} /\ ~lastOp.ok

(* C22: in retro_reset and in HardwareContextReset, a failure of each class   *)
(* (graphics initialization, emulator, generic or unknown) produces all three *)
(* outputs: an error written to the log, an error message for the host, and a *)
(* shutdown request.                                                          *)
C22_EveryFailureClassHasThreeOutputs ==
    EngineCallFailed =>
        /\ CallCount("retro_error") >= 1
        /\ CallCount("set_error_message") >= 1
        /\ CallCount("shutdown") >= 1
        /\ errorMessage # "none"
        /\ shutdownRequested

\* the kind of GL object whose handle a call of Render takes
HandleKind(c) ==
    CASE c = "UseShaderProgram" -> "program"
      [] c \in {"uploadUniforms", "glBufferSubData", "glBindBuffer"} -> "buffer"
      [] c = "glBindVertexArray" -> "vao"
      [] OTHER -> "none"

\* the handles the last handler bound, uploaded to or drew with: <<kind, name>>
HandlesUsed ==
    {<<HandleKind(trace[i].call), trace[i].args[1]>> :
        i \in {j \in 1..Len(trace) : HandleKind(trace[j].call) # "none"}}

(* C23: in every interleaving of frames, context resets and context destroys  *)
(* in which Render runs only while ContextInitialized() is true, every handle *)
(* Render binds or draws with (shader program, UBO, VBO, VAO) names an object *)
(* that a successful SetupOpenGl created and that no context destroy has      *)
(* deleted since.                                                             *)
C23_RenderUsesLiveHandlesOnly ==
    Rendered => /\ HandlesUsed \subseteq glObjects
                /\ <<"program", shader>> \in HandlesUsed
                /\ <<"buffer", vbo>> \in HandlesUsed
                /\ <<"vao", vao>> \in HandlesUsed

\* a game is loaded: the core is constructed and holds a console
GameLoaded == coreInitialized /\ Console # "null"

(* C24: in every sequence of host calls, a second load after an unload with   *)
(* no retro_init between them included, the task scheduler is initialized     *)
(* whenever a game is loaded: the task deinit of retro_unload_game is         *)
(* followed by a task init before the next game is loaded and run.            *)
C24_TasksInitializedWhileGameLoaded ==
    GameLoaded => taskInitialized

\* whether the GLSM state is bound after the calls t, given whether it was before
RECURSIVE GlsmBoundAfter(_, _)
GlsmBoundAfter(t, bound) ==
    IF t = <<>>
    THEN bound
    ELSE GlsmBoundAfter(Tail(t),
                        CASE Head(t).call = "GLSM_CTL_STATE_BIND" -> TRUE
                          [] Head(t).call = "GLSM_CTL_STATE_UNBIND" -> FALSE
                          [] OTHER -> bound)

\* the calls of the presenter that need the GLSM state bound
GlCalls ==
    {"glBindFramebuffer", "glClear", "uploadUniforms", "glBufferSubData",
     "UseShaderProgram", "glViewport", "BindOutputTexture", "glBindBuffer",
     "glBindVertexArray", "glDrawArrays", "glFlush", "InitRenderer",
     "BuildShaderProgram", "LinkShaderProgram", "glGenBuffers",
     "glGenVertexArrays", "glGenTextures", "glDeleteTextures",
     "glDeleteVertexArrays", "glDeleteBuffers", "DeleteShaderProgram"}

\* the last handler ran Render, ContextReset or context_destroy
PresenterRan ==
    \/ Rendered
    \/ lastOp.name \in {"ContextReset", "HardwareContextReset", "context_destroy",
                         "HardwareContextDestroyed"}

(* C25: Render, ContextReset and context_destroy each bind the GLSM state     *)
(* once and unbind it once, the bind first, with their GL calls between the   *)
(* two, on every path, the one where SetupOpenGl fails included; so the GLSM  *)
(* state is unbound after every handler.                                      *)
C25_GlsmBindBalanced ==
    /\ ~GlsmBoundAfter(trace, FALSE)
    /\ PresenterRan =>
          /\ CallBefore("GLSM_CTL_STATE_BIND", "GLSM_CTL_STATE_UNBIND")
          /\ \A i \in 1..Len(trace) :
                trace[i].call \in GlCalls =>
                    /\ \A b \in CallsNamed(trace, "GLSM_CTL_STATE_BIND") : b < i
                    /\ \A u \in CallsNamed(trace, "GLSM_CTL_STATE_UNBIND") : i < u

\* a context reset whose shader build failed returned with the state unbound
C25_Witness ==
    /\ lastOp.name = "ContextReset"
    /\ SetupFailed
    /\ CallCount("LinkShaderProgram") = 0
    /\ CallCount("GLSM_CTL_STATE_BIND") = 1
    /\ trace[Len(trace)].call = "GLSM_CTL_STATE_UNBIND"

====
